---- MODULE Spec2Model ----
(***************************************************************************)
(* Intent router (src/src/router.py) and evaluation harness                *)
(* (src/evaluation/evaluate.py) of the customer-service routing framework. *)
(*                                                                         *)
(* Text is a sequence of one-character strings, so that strip() and        *)
(* upper() are computed.  Python's None is the string "None" where the     *)
(* value is a name (provider, model, client handle).  Wall-clock latency   *)
(* is not modelled; the sleeps and remote calls of one evaluation are      *)
(* recorded, in order, in trace.                                           *)
(***************************************************************************)
EXTENDS Integers, Sequences, FiniteSets

VARIABLES
    env,                 \* providers whose API key is set in the environment
    _client,             \* router.py _client: "None" or the SDK family of the handle
    _provider,           \* router.py _provider
    pending,             \* remote oracle calls issued and not yet answered
    everInitOK,          \* history: some initialize_client call has returned
    resolved,            \* history: what the latest successful initialize_client returned
    lastOp,              \* history: the last library call made from top level
    caller,              \* who runs evaluate_provider: "api" or "main"
    test_cases,          \* evaluate_provider / main: the corpus
    i,                   \* evaluate_provider: 1-based loop index
    results,             \* evaluate_provider: the results dict
    trace,               \* history: sleeps and remote calls of this evaluation
    available_providers, \* main: the providers to evaluate
    idx,                 \* main: 1-based index of the provider loop
    all_results,         \* main: all_results
    sorted_results,      \* print_comparison_table: sorted_results
    best,                \* print_comparison_table: best
    pc                   \* control point

vars == <<env, _client, _provider, pending, everInitOK, resolved, lastOp, caller,
          test_cases, i, results, trace, available_providers, idx,
          all_results, sorted_results, best, pc>>

routerVars == <<_client, _provider, pending, everInitOK, resolved>>
evalVars   == <<caller, test_cases, i, results, trace>>
mainVars   == <<available_providers, idx, all_results, sorted_results, best>>

----------------------------------------------------------------------------
(* Bounds *)

MaxCases == 3          \* corpus length of a direct evaluate_provider call
MaxMainCases == 1      \* corpus length of a main() run
MaxProviders == 2      \* length of main()'s provider list

----------------------------------------------------------------------------
(* Values *)

NoneVal == "None"

FAQ   == <<"F", "A", "Q">>
ORDER == <<"O", "R", "D", "E", "R">>
ERROR == <<"E", "R", "R", "O", "R">>

\* Provider names a caller may pass: the two known ones, a case variant
\* and an unknown one.
ProviderNames == {"google", "groq", "GOOGLE", "bogus"}

\* Model arguments: omitted, or an explicit identifier.
ModelArgs == {NoneVal, "custom-model"}

\* What the remote oracle does with one call: it answers with a text, or
\* the call fails.
RAISE == [kind |-> "raise"]
Text(t) == [kind |-> "text", text |-> t]
OracleOutcomes ==
    { Text(<<"F", "A", "Q">>),
      Text(<<" ", "o", "r", "d", "e", "r", "\n">>),
      Text(<<>>),
      RAISE }

\* test_data.py: the k-th case of the corpus (FAQ and ORDER cases alternate
\* in the model's corpus).
TestCase(k) ==
    IF k % 2 = 1
    THEN [query |-> "What is your return policy?", expected |-> FAQ]
    ELSE [query |-> "Where is my order 101?", expected |-> ORDER]

Corpus(n) == [k \in 1..n |-> TestCase(k)]

----------------------------------------------------------------------------
(* router.py *)

\* str.lower() on the provider names in use
Lower(s) == IF s = "GOOGLE" THEN "google" ELSE s

DEFAULT_MODELS == [google |-> "gemini-2.5-flash", groq |-> "llama-3.1-8b-instant"]

\* DEFAULT_MODELS.get(p)
DefaultModel(p) == IF p \in DOMAIN DEFAULT_MODELS THEN DEFAULT_MODELS[p] ELSE NoneVal

Whitespace == {" ", "\n", "\t"}

RECURSIVE LStrip(_)
LStrip(s) == IF s # <<>> /\ Head(s) \in Whitespace THEN LStrip(Tail(s)) ELSE s

RECURSIVE RStrip(_)
RStrip(s) ==
    IF s # <<>> /\ s[Len(s)] \in Whitespace THEN RStrip(SubSeq(s, 1, Len(s) - 1)) ELSE s

\* str.strip()
Strip(s) == RStrip(LStrip(s))

UpperChar(c) ==
    CASE c = "a" -> "A" [] c = "d" -> "D" [] c = "e" -> "E" [] c = "f" -> "F"
      [] c = "o" -> "O" [] c = "q" -> "Q" [] c = "r" -> "R" [] OTHER -> c

\* str.upper()
Upper(s) == [k \in 1..Len(s) |-> UpperChar(s[k])]

\* response text .strip().upper()
Normalize(t) == Upper(Strip(t))

InitializeClientEager(provider, model, client, keys) ==
    LET p == Lower(provider) IN
    IF p \in {"google", "groq"}
    THEN [client |-> p, provider |-> p, raised |-> IF p \in keys THEN NoneVal ELSE "ValueError",
          ret |-> IF p \notin keys THEN NoneVal
                  ELSE IF model = NoneVal THEN DefaultModel(p) ELSE model]
    ELSE [client |-> client, provider |-> p, raised |-> "ValueError", ret |-> NoneVal]

\* initialize_client(provider, model) called with handle `client` and the
\* keys of `keys` set: the globals after the call, what it raised, what it
\* returned.  _provider is assigned before any check.
InitializeClient(provider, model, client, keys) ==
    LET p == Lower(provider) IN
    IF p \in {"google", "groq"}
    THEN IF p \notin keys
         THEN [client |-> client, provider |-> p, raised |-> "ValueError", ret |-> NoneVal]
         ELSE [client |-> p, provider |-> p, raised |-> NoneVal,
               ret |-> IF model = NoneVal THEN DefaultModel(p) ELSE model]
    ELSE [client |-> client, provider |-> p, raised |-> "ValueError", ret |-> NoneVal]

\* get_current_model()
get_current_model == DefaultModel(_provider)

\* route_query up to its remote call.  "raise": RuntimeError, not
\* initialized.  "remote": the call _provider selects exists on the handle
\* and is issued with `model`.  "local": no branch matches _provider, or
\* the handle is the other SDK's and lacks the attribute; the exception is
\* caught inside the try and "ERROR" is returned with nothing sent.
RouteQueryEntry(client, provider, model) ==
    IF client = NoneVal THEN [kind |-> "raise", model |-> NoneVal, family |-> NoneVal]
    ELSE LET m == IF model = NoneVal THEN DefaultModel(provider) ELSE model IN
         IF provider \in {"google", "groq"} /\ client = provider
         THEN [kind |-> "remote", model |-> m, family |-> provider]
         ELSE [kind |-> "local", model |-> m, family |-> NoneVal]

\* route_query after its remote call: the value it returns
RouteQueryReturn(outcome) ==
    IF outcome.kind = "raise" THEN ERROR ELSE Normalize(outcome.text)

----------------------------------------------------------------------------
(* evaluate.py: evaluate_provider *)

RATE_LIMITS == [google |-> 5, groq |-> 30]

DefaultRateLimit == 60

LowThroughputThreshold == 10

\* RATE_LIMITS.get(provider, 60)
RateLimit(provider) ==
    IF provider \in DOMAIN RATE_LIMITS THEN RATE_LIMITS[provider] ELSE DefaultRateLimit

\* delay_seconds = 60.0 / rate_limit + 0.5, in milliseconds
DelayMs(rate_limit) == 60000 \div rate_limit + 500

NeedsSleepEveryRequest(k, rate_limit) == rate_limit < LowThroughputThreshold

\* `if i > 0 and rate_limit < 10` for the k-th case (k = i + 1)
NeedsSleep(k, rate_limit) == k > 1 /\ rate_limit < LowThroughputThreshold

\* round(correct / total * 100, 2) if total > 0 else 0.0, in hundredths of
\* a percent; round() rounds a half to the even neighbour.
Accuracy(correct, total) ==
    IF total > 0
    THEN LET n == correct * 10000
             q == n \div total
             r == n % total
         IN  IF 2 * r > total THEN q + 1
             ELSE IF 2 * r = total THEN q + (q % 2)
             ELSE q
    ELSE 0

\* the results dict built on entry
NewResults(provider, cases) ==
    [provider |-> provider, model |-> DefaultModel(provider), total |-> Len(cases),
     correct |-> 0, incorrect |-> 0, errors |-> 0, accuracy |-> 0, details |-> <<>>]

InitFailedNoErrors(r, cases) == r

\* the except branch around initialize_client
InitFailed(r, cases) == [r EXCEPT !.errors = Len(cases)]

ScoredSkippingFailures(r, case, predicted) ==
    LET is_correct == predicted = case.expected IN
    IF predicted = ERROR THEN r
    ELSE [r EXCEPT !.correct = IF is_correct THEN @ + 1 ELSE @,
                   !.incorrect = IF is_correct THEN @ ELSE @ + 1,
                   !.details = Append(@, [query |-> case.query, expected |-> case.expected,
                                          predicted |-> predicted, correct |-> is_correct,
                                          error |-> NoneVal])]

ScoredCountingErrorsTwice(r, case, predicted) ==
    LET is_correct == predicted = case.expected IN
    [r EXCEPT !.correct = IF is_correct THEN @ + 1 ELSE @,
              !.incorrect = IF is_correct THEN @ ELSE @ + 1,
              !.errors = IF predicted = ERROR THEN @ + 1 ELSE @,
              !.details = Append(@, [query |-> case.query, expected |-> case.expected,
                                     predicted |-> predicted, correct |-> is_correct,
                                     error |-> NoneVal])]

\* the try branch of the loop body: route_query returned `predicted`
Scored(r, case, predicted) ==
    LET is_correct == predicted = case.expected IN
    [r EXCEPT !.correct = IF is_correct THEN @ + 1 ELSE @,
              !.incorrect = IF is_correct THEN @ ELSE @ + 1,
              !.details = Append(@, [query |-> case.query, expected |-> case.expected,
                                     predicted |-> predicted, correct |-> is_correct,
                                     error |-> NoneVal])]

\* the except branch of the loop body: route_query raised
HarnessError(r, case, e) ==
    [r EXCEPT !.errors = @ + 1,
              !.details = Append(@, [query |-> case.query, expected |-> case.expected,
                                     predicted |-> ERROR, correct |-> FALSE,
                                     error |-> e])]

\* the metrics computed after the loop
Finalized(r) == [r EXCEPT !.accuracy = Accuracy(r.correct, r.total)]

----------------------------------------------------------------------------
(* evaluate.py: print_comparison_table *)

RECURSIVE InsertBeforeEqual(_, _)
InsertBeforeEqual(s, x) ==
    IF s = <<>> THEN <<x>>
    ELSE IF Head(s).accuracy > x.accuracy THEN <<Head(s)>> \o InsertBeforeEqual(Tail(s), x)
    ELSE <<x>> \o s

\* x placed after every element whose accuracy is at least its own
RECURSIVE InsertDescending(_, _)
InsertDescending(s, x) ==
    IF s = <<>> THEN <<x>>
    ELSE IF Head(s).accuracy >= x.accuracy THEN <<Head(s)>> \o InsertDescending(Tail(s), x)
    ELSE <<x>> \o s

RECURSIVE SortedUnstable(_)
SortedUnstable(s) ==
    IF s = <<>> THEN <<>>
    ELSE InsertBeforeEqual(SortedUnstable(SubSeq(s, 1, Len(s) - 1)), s[Len(s)])

\* sorted(all_results, key=lambda x: x["accuracy"], reverse=True): a stable
\* sort, elements taken in input order
RECURSIVE SortedByAccuracy(_)
SortedByAccuracy(s) ==
    IF s = <<>> THEN <<>>
    ELSE InsertDescending(SortedByAccuracy(SubSeq(s, 1, Len(s) - 1)), s[Len(s)])

\* best = sorted_results[0]
Best(sorted) == sorted[1]

----------------------------------------------------------------------------
(* State machine *)

NoResults ==
    [provider |-> NoneVal, model |-> NoneVal, total |-> 0, correct |-> 0,
     incorrect |-> 0, errors |-> 0, accuracy |-> 0, details |-> <<>>]

NoOp ==
    [op |-> "none", provider |-> NoneVal, model |-> NoneVal, raised |-> NoneVal,
     done |-> TRUE, ret |-> NoneVal, sent |-> <<>>, outcome |-> RAISE,
     pre_client |-> NoneVal, pre_provider |-> NoneVal, had_init |-> FALSE]

Init ==
    /\ env \in SUBSET {"google", "groq"}
    /\ _client = NoneVal
    /\ _provider = NoneVal
    /\ pending = <<>>
    /\ everInitOK = FALSE
    /\ resolved = NoneVal
    /\ lastOp = NoOp
    /\ caller = "api"
    /\ test_cases = <<>>
    /\ i = 1
    /\ results = NoResults
    /\ trace = <<>>
    /\ available_providers = <<>>
    /\ idx = 1
    /\ all_results = <<>>
    /\ sorted_results = <<>>
    /\ best = NoResults
    /\ pc = "idle"

\* A library user calls initialize_client(provider, model).
ApiInitialize(provider, model) ==
    /\ pc = "idle"
    /\ LET out == InitializeClient(provider, model, _client, env) IN
       /\ _client' = out.client
       /\ _provider' = out.provider
       /\ everInitOK' = (everInitOK \/ out.raised = NoneVal)
       /\ resolved' = IF out.raised = NoneVal THEN out.ret ELSE resolved
       /\ lastOp' = [NoOp EXCEPT !.op = "initialize_client", !.provider = provider,
                                 !.model = model, !.raised = out.raised, !.ret = out.ret,
                                 !.pre_client = _client, !.pre_provider = _provider,
                                 !.had_init = everInitOK]
    /\ UNCHANGED <<env, pending, pc>>
    /\ UNCHANGED evalVars
    /\ UNCHANGED mainVars

\* A library user calls route_query(query, model): up to the remote call,
\* or to the return or raise that comes without one.
ApiRouteQuery(model) ==
    /\ pc = "idle"
    /\ LET e == RouteQueryEntry(_client, _provider, model)
           op == [NoOp EXCEPT !.op = "route_query", !.model = model,
                              !.pre_client = _client, !.pre_provider = _provider,
                              !.had_init = everInitOK]
       IN IF e.kind = "remote"
          THEN /\ pending' = Append(pending, [family |-> e.family, model |-> e.model])
               /\ lastOp' = [op EXCEPT !.done = FALSE,
                                       !.sent = <<[family |-> e.family, model |-> e.model]>>]
               /\ pc' = "api_wait"
          ELSE IF e.kind = "local"
          THEN /\ lastOp' = [op EXCEPT !.ret = ERROR]
               /\ UNCHANGED <<pending, pc>>
          ELSE /\ lastOp' = [op EXCEPT !.raised = "RuntimeError"]
               /\ UNCHANGED <<pending, pc>>
    /\ UNCHANGED <<env, _client, _provider, everInitOK, resolved>>
    /\ UNCHANGED evalVars
    /\ UNCHANGED mainVars

\* The remote call of a top-level route_query ends; route_query returns.
ApiOracleReply(outcome) ==
    /\ pc = "api_wait"
    /\ pending' = Tail(pending)
    /\ lastOp' = [lastOp EXCEPT !.done = TRUE, !.ret = RouteQueryReturn(outcome),
                                !.outcome = outcome]
    /\ pc' = "idle"
    /\ UNCHANGED <<env, _client, _provider, everInitOK, resolved>>
    /\ UNCHANGED evalVars
    /\ UNCHANGED mainVars

\* evaluate_provider(provider, cases) from its entry to the end of the
\* try/except around initialize_client.
EvalEnter(provider, cases) ==
    LET out == InitializeClient(provider, NoneVal, _client, env)
        r == NewResults(provider, cases)
    IN /\ _client' = out.client
       /\ _provider' = out.provider
       /\ everInitOK' = (everInitOK \/ out.raised = NoneVal)
       /\ resolved' = IF out.raised = NoneVal THEN out.ret ELSE resolved
       /\ i' = 1
       /\ trace' = <<>>
       /\ IF out.raised # NoneVal
          THEN results' = InitFailed(r, cases) /\ pc' = "eval_failed"
          ELSE results' = r /\ pc' = "eval_loop"

\* A library user calls evaluate_provider(provider, corpus of n cases).
EvaluateProvider(provider, n) ==
    /\ pc = "idle"
    /\ caller' = "api"
    /\ test_cases' = Corpus(n)
    /\ lastOp' = [NoOp EXCEPT !.op = "evaluate_provider", !.provider = provider,
                              !.done = FALSE, !.pre_client = _client,
                              !.pre_provider = _provider, !.had_init = everInitOK]
    /\ EvalEnter(provider, Corpus(n))
    /\ UNCHANGED <<env, pending>>
    /\ UNCHANGED mainVars

\* evaluate.py is run: main() with its provider list and corpus, in a fresh
\* process (the router's globals at their initial values).  The list is
\* any non-empty list of provider names: main exits on an empty one, and
\* the filter by credential that builds it is not applied here, so that
\* the loop also meets providers whose initialization fails.
MainStart(providers, n) ==
    /\ pc = "idle"
    /\ lastOp.op = "none"
    /\ _client = NoneVal /\ _provider = NoneVal
    /\ caller' = "main"
    /\ available_providers' = providers
    /\ test_cases' = Corpus(n)
    /\ idx' = 1
    /\ all_results' = <<>>
    /\ pc' = "main_loop"
    /\ UNCHANGED <<env, lastOp, i, results, trace, sorted_results, best>>
    /\ UNCHANGED routerVars

\* main: the next provider of the list is evaluated.
MainNextProvider ==
    /\ pc = "main_loop"
    /\ idx <= Len(available_providers)
    /\ EvalEnter(available_providers[idx], test_cases)
    /\ UNCHANGED <<env, pending, lastOp, caller, test_cases>>
    /\ UNCHANGED mainVars

\* the rate-limit sleep before the i-th request
EvalSleep ==
    /\ pc = "eval_loop"
    /\ i <= Len(test_cases)
    /\ NeedsSleep(i, RateLimit(results.provider))
    /\ trace' = Append(trace, [type |-> "sleep", ms |-> DelayMs(RateLimit(results.provider)),
                                outcome |-> NoneVal])
    /\ pc' = "eval_call"
    /\ UNCHANGED <<env, lastOp, caller, test_cases, i, results>>
    /\ UNCHANGED routerVars
    /\ UNCHANGED mainVars

\* route_query(query) for the i-th case, up to its remote call; when it
\* ends without one, the rest of the loop body.
EvalRouteQuery ==
    /\ \/ pc = "eval_call"
       \/ /\ pc = "eval_loop"
          /\ i <= Len(test_cases)
          /\ ~NeedsSleep(i, RateLimit(results.provider))
    /\ LET e == RouteQueryEntry(_client, _provider, NoneVal) IN
       /\ trace' = Append(trace, [type |-> "classify", ms |-> 0,
                                   outcome |-> IF e.kind = "remote" THEN "pending" ELSE e.kind])
       /\ IF e.kind = "remote"
          THEN /\ pending' = Append(pending, [family |-> e.family, model |-> e.model])
               /\ pc' = "eval_wait"
               /\ UNCHANGED <<i, results>>
          ELSE /\ results' = IF e.kind = "local"
                             THEN Scored(results, test_cases[i], ERROR)
                             ELSE HarnessError(results, test_cases[i], "RuntimeError")
               /\ i' = i + 1
               /\ pc' = "eval_loop"
               /\ UNCHANGED pending
    /\ UNCHANGED <<env, _client, _provider, everInitOK, resolved, lastOp, caller, test_cases>>
    /\ UNCHANGED mainVars

\* The remote call ends; route_query returns and the loop body scores it.
EvalOracleReply(outcome) ==
    /\ pc = "eval_wait"
    /\ pending' = Tail(pending)
    /\ results' = Scored(results, test_cases[i], RouteQueryReturn(outcome))
    /\ trace' = [trace EXCEPT ![Len(trace)].outcome = outcome.kind]
    /\ i' = i + 1
    /\ pc' = "eval_loop"
    /\ UNCHANGED <<env, _client, _provider, everInitOK, resolved, lastOp, caller, test_cases>>
    /\ UNCHANGED mainVars

\* evaluate_provider returns r to its caller: main appends it to
\* all_results and moves to the next provider.
Deliver(r) ==
    /\ results' = NoResults
    /\ i' = 1
    /\ trace' = <<>>
    /\ IF caller = "main"
       THEN /\ all_results' = Append(all_results, r)
            /\ idx' = idx + 1
            /\ pc' = "main_loop"
            /\ UNCHANGED <<lastOp, test_cases>>
       ELSE /\ lastOp' = [lastOp EXCEPT !.done = TRUE, !.ret = r]
            /\ test_cases' = <<>>
            /\ pc' = "idle"
            /\ UNCHANGED <<all_results, idx>>
    /\ UNCHANGED <<env, caller, available_providers, sorted_results, best>>
    /\ UNCHANGED routerVars

\* the return in the except branch around initialize_client
EvalReturnInitFailed ==
    /\ pc = "eval_failed"
    /\ Deliver(results)

\* the loop is over: metrics, return
EvalReturn ==
    /\ pc = "eval_loop"
    /\ i > Len(test_cases)
    /\ Deliver(Finalized(results))

\* main after the loop: print_comparison_table(all_results)
MainReport ==
    /\ pc = "main_loop"
    /\ idx > Len(available_providers)
    /\ sorted_results' = SortedByAccuracy(all_results)
    /\ best' = Best(SortedByAccuracy(all_results))
    /\ pc' = "done"
    /\ UNCHANGED <<env, lastOp, available_providers, idx, all_results>>
    /\ UNCHANGED routerVars
    /\ UNCHANGED evalVars

ProviderLists ==
    UNION { [1..n -> ProviderNames] : n \in 1..MaxProviders }

Next ==
    \/ \E p \in ProviderNames, m \in ModelArgs : ApiInitialize(p, m)
    \/ \E m \in ModelArgs : ApiRouteQuery(m)
    \/ \E o \in OracleOutcomes : ApiOracleReply(o)
    \/ \E p \in ProviderNames, n \in 0..MaxCases : EvaluateProvider(p, n)
    \/ \E ps \in ProviderLists, n \in 0..MaxMainCases : MainStart(ps, n)
    \/ MainNextProvider
    \/ EvalSleep
    \/ EvalRouteQuery
    \/ \E o \in OracleOutcomes : EvalOracleReply(o)
    \/ EvalReturnInitFailed
    \/ EvalReturn
    \/ MainReport

Spec == Init /\ [][Next]_vars

----------------------------------------------------------------------------
(* Claims *)

\* initialize_client fails for this name in this environment: the name is
\* not a known provider, or its credential is absent.
InitFails(p) == Lower(p) \notin ({"google", "groq"} \cap env)

Returned == lastOp.op = "evaluate_provider" /\ lastOp.done

InLoop == pc \in {"eval_loop", "eval_call", "eval_wait"}

SumsToTotal(r) == r.correct + r.incorrect + r.errors = r.total

AllErrors(r) ==
    r.errors = r.total /\ r.correct = 0 /\ r.incorrect = 0 /\ r.details = <<>>

AllPredictedError(r) ==
    \A k \in 1..Len(r.details) : r.details[k].predicted = ERROR

DetailMatches(d, case) ==
    /\ d.query = case.query
    /\ d.expected = case.expected
    /\ d.correct <=> (d.predicted = d.expected)

CountCorrect(details) == Cardinality({k \in 1..Len(details) : details[k].correct})

WellScored(r, cases) ==
    /\ Len(r.details) = Len(cases)
    /\ \A k \in 1..Len(cases) : DetailMatches(r.details[k], cases[k])
    /\ r.correct = CountCorrect(r.details)

\* C1: every EvaluationResult evaluate_provider returns, on the
\* initialization-failure path and on the loop path, to a direct caller and
\* to main, has correct + incorrect + errors = total.
C1_CountsSumToTotal ==
    /\ pc = "eval_failed" => SumsToTotal(results)
    /\ (pc = "eval_loop" /\ i > Len(test_cases)) => SumsToTotal(results)
    /\ Returned => SumsToTotal(lastOp.ret)
    /\ \A k \in 1..Len(all_results) : SumsToTotal(all_results[k])

\* A returned result over three cases with a correct prediction, a wrong
\* one and a failed oracle call.
C1_Witness ==
    /\ Returned
    /\ lastOp.ret.total = 3
    /\ lastOp.ret.correct >= 1
    /\ \E k \in 1..Len(lastOp.ret.details) : lastOp.ret.details[k].predicted = ERROR
    /\ \E k \in 1..Len(lastOp.ret.details) : lastOp.ret.details[k].predicted = <<>>

\* C2 (as claimed): when every remote call of an evaluation whose
\* initialization succeeded fails, the result has errors = N, correct = 0,
\* incorrect = 0 and every detail predicted = "ERROR".
C2_OracleFailuresCountAsErrors ==
    ( /\ pc = "eval_loop"
      /\ i > Len(test_cases)
      /\ \A k \in 1..Len(trace) :
            trace[k].type = "classify" => trace[k].outcome = "raise" )
    => /\ results.errors = Len(test_cases)
       /\ results.correct = 0
       /\ results.incorrect = 0
       /\ Len(results.details) = Len(test_cases)
       /\ AllPredictedError(results)

\* C3: a remote call is in flight only after some initialize_client has
\* succeeded; initialize_client with an unknown name or an absent credential
\* raises and sends nothing; route_query before any successful
\* initialize_client raises "not initialized" and sends nothing.
C3_NoRemoteCallBeforeInit ==
    /\ pending # <<>> => everInitOK
    /\ (lastOp.op = "initialize_client" /\ InitFails(lastOp.provider))
          => lastOp.raised = "ValueError" /\ lastOp.sent = <<>> /\ pending = <<>>
    /\ (lastOp.op = "route_query" /\ ~lastOp.had_init)
          => lastOp.raised = "RuntimeError" /\ lastOp.sent = <<>> /\ pending = <<>>
    /\ (InLoop /\ trace # <<>>) => everInitOK

\* route_query called after initialize_client("bogus") failed and nothing
\* ever succeeded.
C3_Witness ==
    /\ lastOp.op = "route_query"
    /\ ~lastOp.had_init
    /\ lastOp.pre_provider = "bogus"
    /\ lastOp.raised = "RuntimeError"

\* C4 (as claimed): once an initialize_client has succeeded, route_query
\* never raises, sends exactly one remote call, returns "ERROR" when that
\* call fails and the stripped, uppercased text otherwise.
C4_ClassifyAfterInit ==
    (lastOp.op = "route_query" /\ lastOp.done /\ lastOp.had_init)
    => /\ lastOp.raised = NoneVal
       /\ Len(lastOp.sent) = 1
       /\ lastOp.outcome.kind = "raise" => lastOp.ret = ERROR
       /\ lastOp.outcome = Text(<<" ", "o", "r", "d", "e", "r", "\n">>) => lastOp.ret = ORDER
       /\ lastOp.outcome = Text(<<"F", "A", "Q">>) => lastOp.ret = FAQ
       /\ lastOp.outcome = Text(<<>>) => lastOp.ret = <<>>

\* C5: when initialize_client fails, evaluate_provider returns errors =
\* total, correct = incorrect = 0 and no details, having slept and called
\* nothing; main goes on: all_results holds one result per provider
\* evaluated so far, in list order, and one per listed provider at the end.
C5_InitFailureIsolated ==
    /\ (InLoop \/ pc = "eval_failed") => (InitFails(results.provider) <=> pc = "eval_failed")
    /\ pc = "eval_failed"
          => /\ AllErrors(results)
             /\ results.total = Len(test_cases)
             /\ trace = <<>>
             /\ pending = <<>>
    /\ (Returned /\ InitFails(lastOp.provider)) => AllErrors(lastOp.ret)
    /\ caller = "main"
          => /\ Len(all_results) = idx - 1
             /\ idx - 1 <= Len(available_providers)
             /\ \A k \in 1..Len(all_results) :
                   /\ all_results[k].provider = available_providers[k]
                   /\ all_results[k].total = Len(test_cases)
                   /\ InitFails(available_providers[k]) => AllErrors(all_results[k])
    /\ pc = "done" => Len(all_results) = Len(available_providers)

\* main ran over <<"bogus", "google">>: the first result is all errors, the
\* second provider was evaluated after it.
C5_Witness ==
    /\ pc = "done"
    /\ available_providers = <<"bogus", "google">>
    /\ all_results[1].errors = 1
    /\ all_results[2].details # <<>>
    /\ all_results[2].correct = 1

C7_OneDetailPerCase ==
    /\ InLoop
          => /\ Len(results.details) = i - 1
             /\ i - 1 <= Len(test_cases)
             /\ \A k \in 1..(i - 1) : DetailMatches(results.details[k], test_cases[k])
             /\ results.correct = CountCorrect(results.details)
    /\ (Returned /\ ~InitFails(lastOp.provider))
          => WellScored(lastOp.ret, Corpus(lastOp.ret.total))
    /\ \A k \in 1..Len(all_results) :
          ~InitFails(available_providers[k]) => WellScored(all_results[k], test_cases)

\* A returned result over three cases whose first remote call failed and
\* whose third case was still classified, correctly.
C7_Witness ==
    /\ Returned
    /\ lastOp.ret.total = 3
    /\ Len(lastOp.ret.details) = 3
    /\ lastOp.ret.details[1].predicted = ERROR
    /\ lastOp.ret.details[3].correct

Permutations(n) ==
    {f \in [1..n -> 1..n] : \A a, b \in 1..n : f[a] = f[b] => a = b}

\* out is input reordered by f, non-increasing in accuracy, equal
\* accuracies in input order
IsStableDescendingSort(out, input) ==
    /\ Len(out) = Len(input)
    /\ \E f \in Permutations(Len(input)) :
          /\ \A k \in 1..Len(input) : out[k] = input[f[k]]
          /\ \A k, l \in 1..Len(input) :
                k < l => \/ out[k].accuracy > out[l].accuracy
                         \/ out[k].accuracy = out[l].accuracy /\ f[k] < f[l]

\* the earliest element of input with the maximum accuracy
EarliestMax(input) ==
    LET top == {k \in 1..Len(input) :
                   \A l \in 1..Len(input) : input[l].accuracy <= input[k].accuracy}
    IN  input[CHOOSE k \in top : \A l \in top : k <= l]

\* C8: print_comparison_table leaves all_results as it was; sorted_results
\* is a permutation of it, non-increasing in accuracy and stable for ties;
\* best is its first element, the earliest input result of maximum
\* accuracy.
C8_RankingStable ==
    [][(pc = "main_loop" /\ pc' = "done")
          => /\ all_results' = all_results
             /\ IsStableDescendingSort(sorted_results', all_results)
             /\ best' = sorted_results'[1]
             /\ best' = EarliestMax(all_results)]_vars

\* Two distinct results tie at 100 %: the report keeps their input order.
C8_Witness ==
    /\ pc = "done"
    /\ Len(all_results) = 2
    /\ all_results[1].accuracy = 10000
    /\ all_results[2].accuracy = 10000
    /\ all_results[1].provider # all_results[2].provider
    /\ best.provider = all_results[1].provider

\* C9 (as claimed): after initialize_client returns R, get_current_model()
\* is R, and a route_query without a model argument sends its remote call
\* with the R of the latest successful initialize_client.
C9_SessionHoldsResolvedModel ==
    /\ (lastOp.op = "initialize_client" /\ lastOp.raised = NoneVal)
          => get_current_model = lastOp.ret
    /\ (lastOp.op = "route_query" /\ lastOp.model = NoneVal /\ lastOp.sent # <<>>)
          => lastOp.sent[1].model = resolved

\* C10 (as claimed): an initialize_client that raises leaves _provider and
\* _client as they were; the handle, when there is one, is the one of
\* _provider; route_query after a successful initialize is served by the
\* provider of the handle.
C10_FailedInitializeLeavesSession ==
    /\ (lastOp.op = "initialize_client" /\ lastOp.raised # NoneVal)
          => _client = lastOp.pre_client /\ _provider = lastOp.pre_provider
    /\ _client # NoneVal => _client = _provider
    /\ (lastOp.op = "route_query" /\ lastOp.had_init)
          => lastOp.sent # <<>> /\ lastOp.sent[1].family = lastOp.pre_client

====
